---- MODULE Spec2Model ----
(***************************************************************************)
(* The replication manager of pkg/controller (src/pkg/registry/pod/rest.go *)
(* lines 160-349): ReplicationManager.Run, watchControllers, synchronize,  *)
(* syncReplicationController, filterActivePods and RealPodControl.         *)
(*                                                                         *)
(* The cluster (pods, stored replication controllers, the watch stream,    *)
(* the ticker) is the environment.  Every call of the kube client either   *)
(* succeeds or fails; the actions are parametrised by the set O of         *)
(* outcomes that the List/Create/Delete calls may have.                    *)
(***************************************************************************)
EXTENDS Integers, Sequences, FiniteSets, TLC

\* ---------------------------------------------------------------- bounds
\* the largest replica count of a controller
MaxReplicas == 2
\* the number of pods (they carry label 1, and the names 1, 2, ...) that may
\* exist before Run
InitPods == 1
\* the largest resource version of an event
MaxRV == 2

\* the identities a replication controller can have
SpecIDs == {1, 2}
NumSpecs == Cardinality(SpecIDs)
\* frame 0 is the syncHandler call of the watch loop (line 274); frame ix
\* is the call made by goroutine ix of synchronize (line 342)
Slots == {0} \cup SpecIDs
\* Pods are named by label and number.  A label never has more than InitPods
\* terminated and MaxReplicas other pods, or InitPods pods: a create follows a
\* listing with fewer than MaxReplicas pods that are not terminated.
MaxPods == InitPods + MaxReplicas
PodIDs == 1..MaxPods

VARIABLES
    pods,             \* cluster: label -> pod number -> condition
    rcs,              \* cluster: the stored replication controllers, in list order
    streamOpen,       \* cluster: the watch channel is open
    lastSent,         \* cluster: highest resource version the stream has passed
    tick,             \* rm.syncTime holds a tick
    mainpc,           \* the caller of Run
    wpc,              \* the goroutine started by Run: its place in Forever/watchControllers
    resourceVersion,  \* the cursor of Run (line 233)
    watchFrom,        \* the version given to the last WatchReplicationControllers call
    event,            \* the event read at line 256
    call,             \* the frames of syncReplicationController
    lastRV,           \* history: the version of the last event that passed line 270
    prev,             \* history: per controller id, how its last completed sync ended
    crashed           \* the process died (fatal error of the runtime)

vars == <<pods, rcs, streamOpen, lastSent, tick, mainpc, wpc, resourceVersion,
          watchFrom, event, call, lastRV, prev, crashed>>

\* ------------------------------------------------------------ the cluster
\* a controller with id i selects label i, and its pod template carries label i
\* (validation rejects a template that its own selector does not match)
Selector(id) == id
TemplateLabel(id) == id
Labels == SpecIDs

NoSpec == [id |-> 0, replicas |-> 0]
NoEvent == [typed |-> FALSE, kind |-> "NONE", id |-> 0, replicas |-> 0, rv |-> 0]
\* an event whose Object is not a *api.ReplicationController
NotRC == [typed |-> FALSE, kind |-> "ERROR", id |-> 0, replicas |-> 0, rv |-> 0]

InitPodStates == {"Absent", "Running", "Terminated"}

StoredLists ==
    UNION {[1..n -> 0..MaxReplicas] : n \in 0..NumSpecs}

\* kubeClient.ListPods(ctx, s): the pods that the selector matches, in the
\* order of their names
RECURSIVE ListPodsFrom(_, _)
ListPodsFrom(k, sel) ==
    IF k > MaxPods THEN <<>>
    ELSE (IF pods[sel][k] # "Absent"
          THEN <<[id |-> <<sel, k>>, cond |-> pods[sel][k]]>>
          ELSE <<>>) \o ListPodsFrom(k + 1, sel)

ListPodsOf(sel) == ListPodsFrom(1, sel)

FreeIDs(l) == {k \in PodIDs : pods[l][k] = "Absent"}
NewPodID(l) == CHOOSE k \in FreeIDs(l) : \A j \in FreeIDs(l) : k <= j

\* kubeClient.CreatePod: fails when the outcome is a failure or no name is free
CreateOutcomes(l, O) == IF FreeIDs(l) = {} THEN {FALSE} ELSE O
\* kubeClient.DeletePod: fails when the outcome is a failure or the pod is gone
DeleteOutcomes(id, O) == IF pods[id[1]][id[2]] = "Absent" THEN {FALSE} ELSE O

\* The events a stream opened at watchFrom can pass next: versions rise along
\* the stream and none is below the version the watch was opened with.  The
\* stored controllers do not change, so an event about a stored controller
\* carries it as stored; a controller that is not stored has been deleted, and
\* its event carries what it last was.
Snapshots ==
    {[kind |-> k, id |-> i, replicas |-> rcs[i]] :
        k \in {"ADDED", "MODIFIED"}, i \in DOMAIN rcs}
    \cup
    {[kind |-> "DELETED", id |-> i, replicas |-> n] :
        i \in SpecIDs \ DOMAIN rcs, n \in 0..MaxReplicas}

NextEvents ==
    {NotRC} \cup
    {[typed |-> TRUE, kind |-> e.kind, id |-> e.id, replicas |-> e.replicas,
      rv |-> v] : e \in Snapshots, v \in (lastSent + 1)..MaxRV}

\* ------------------------------------------------------------- the frames
\* prev[i] is the replica count of the last completed sync of controller i when
\* its list and every create and delete of it succeeded, and NoPred otherwise
NoPred == 0 - 1

Idle ==
    [pc |-> "idle", spec |-> NoSpec, podList |-> <<>>, listErr |-> FALSE,
     toCreate |-> 0, toDelete |-> {}, ret |-> "none",
     nCreate |-> 0, nDelete |-> 0, deleted |-> {}, nFail |-> 0]

\* rm.syncHandler(spec) is entered
Entered(spec) ==
    [Idle EXCEPT !.pc = "list", !.spec = spec]

\* a filter that keeps the terminated pods
FilterNothing(list) == list

\* line 279-287
FilterActivePods(list) == SelectSeq(list, LAMBDA p : p.cond # "Terminated")

\* line 296
filteredList(s) == FilterActivePods(call[s].podList)

\* the count of every listed pod, terminated or not, against the target
DiffUnfiltered(list, spec) == Len(list) - spec.replicas

\* line 297
Diff(list, spec) == Len(FilterActivePods(list)) - spec.replicas

\* a loop that runs once too often
CreateCountOffByOne(diff) == IF diff < 0 THEN 1 - diff ELSE 0

\* line 298-303: the number of create goroutines
CreateCount(diff) == IF diff < 0 THEN diff * (0 - 1) ELSE 0

\* line 310-314: the indices (from 1) of the delete goroutines
DeleteIndices(diff) == IF diff > 0 THEN 1..diff ELSE {}

\* goroutines that share the loop variable instead of taking ix
DeleteTargetShared(s, ix) == filteredList(s)[1].id

\* line 317
DeleteTarget(s, ix) == filteredList(s)[ix].id

\* a cursor handed over by value: every open starts where the first one did
WatchStartStale == watchFrom

\* line 244
WatchStart == resourceVersion

\* a cursor left on the event itself
NextCursorSame(ev) == ev.rv

\* line 270
NextCursor(ev) == ev.rv + 1

\* a failed create that calls the rest of the batch off
RemainingAbort(n, ok) == IF ok THEN n - 1 ELSE 0

\* line 305, 209-212: a create goroutine ends, whatever CreatePod returned; n
\* goroutines had not run createReplica yet
Remaining(n, ok) == n - 1

\* a call that does not wait for its goroutines
DrainedNoWait(s) == TRUE

\* line 309, 320: wait.Wait()
Drained(s) ==
    /\ call[s].toCreate = 0
    /\ call[s].toDelete = {}

\* a sweep that does not wait for its goroutines
SweepDrainedNoWait == TRUE

\* line 348: wg.Wait()
SweepDrained == \A s \in SpecIDs : call[s].pc \in {"idle", "done"}

Alive == ~crashed

\* ---------------------------------------------------------------- Init
Init ==
    /\ pods \in {p \in [Labels -> [PodIDs -> InitPodStates]] :
                    \A l \in Labels : \A k \in PodIDs :
                        /\ (l > 1 \/ k > InitPods) => p[l][k] = "Absent"
                        /\ (k > 1 /\ p[l][k] # "Absent") => p[l][k - 1] # "Absent"}
    /\ rcs \in StoredLists
    /\ streamOpen = FALSE
    /\ lastSent = 0
    /\ tick = FALSE
    /\ mainpc = "new"
    /\ wpc = "none"
    /\ resourceVersion = 0
    /\ watchFrom = 0
    /\ event = NoEvent
    /\ call = [s \in Slots |-> Idle]
    /\ lastRV = 0
    /\ prev = [i \in SpecIDs |-> NoPred]
    /\ crashed = FALSE

\* ------------------------------------------------- Run and the watch loop
\* a Run that calls util.Forever itself and so stays in it
RunBlocks == "blocked"

\* line 234-235: util.Forever is started with go, and Run ends
RunEnd == "returned"

\* line 231-235
Run ==
    /\ mainpc = "new"
    /\ mainpc' = RunEnd
    /\ resourceVersion' = 0
    /\ wpc' = "forever"
    /\ UNCHANGED <<pods, rcs, streamOpen, lastSent, tick, watchFrom, event,
                   call, lastRV, prev, crashed>>

\* time.Tick(period): the channel holds one tick, further ticks are dropped.
\* Only the select of the watch loop reads the channel, so a tick while the
\* loop is in a handler is the same as a tick when it is back at the select.
Tick ==
    /\ Alive
    /\ mainpc = "returned"
    /\ wpc \in {"forever", "backoff", "select"}
    /\ ~tick
    /\ tick' = TRUE
    /\ UNCHANGED <<pods, rcs, streamOpen, lastSent, mainpc, wpc,
                   resourceVersion, watchFrom, event, call, lastRV, prev, crashed>>

\* a failed open that is logged and not returned from
AfterOpenFailureGoesOn == "select"

\* line 246-250: a failed open is logged, slept on and returned from
AfterOpenFailure == "backoff"

\* util.Forever: the function is called again whenever it has returned
ForeverAgain == "forever"

\* line 239-250
WatchOpen ==
    /\ Alive
    /\ wpc = "forever"
    /\ watchFrom' = WatchStart
    /\ \E ok \in BOOLEAN :
        IF ok
        THEN /\ wpc' = "select"
             /\ streamOpen' = TRUE
             /\ lastSent' = IF WatchStart > 0 THEN WatchStart - 1 ELSE 0
        ELSE /\ wpc' = AfterOpenFailure
             /\ UNCHANGED <<streamOpen, lastSent>>
    /\ UNCHANGED <<pods, rcs, tick, mainpc, resourceVersion, event, call,
                   lastRV, prev, crashed>>

\* line 248-249, and util.Forever calling again
Backoff ==
    /\ Alive
    /\ wpc = "backoff"
    /\ wpc' = ForeverAgain
    /\ UNCHANGED <<pods, rcs, streamOpen, lastSent, tick, mainpc,
                   resourceVersion, watchFrom, event, call, lastRV, prev, crashed>>

\* the server, or the network, ends the stream.  Only the select of the watch
\* loop reads the channel, so a close while the loop is busy is the same as a
\* close when it is back at the select.
StreamClose ==
    /\ Alive
    /\ streamOpen
    /\ wpc = "select"
    /\ streamOpen' = FALSE
    /\ UNCHANGED <<pods, rcs, lastSent, tick, mainpc, wpc, resourceVersion,
                   watchFrom, event, call, lastRV, prev, crashed>>

\* line 256-262
WatchClosed ==
    /\ Alive
    /\ wpc = "select"
    /\ ~streamOpen
    /\ wpc' = ForeverAgain
    /\ UNCHANGED <<pods, rcs, streamOpen, lastSent, tick, mainpc,
                   resourceVersion, watchFrom, event, call, lastRV, prev, crashed>>

\* a loop that reads the next event while the handler of the last one runs
ReceiveReadyDuringSync == wpc \in {"select", "sync"}

\* line 252-256: the channel is read at the select, to which the loop comes
\* back when the handler has returned
ReceiveReady == wpc = "select"

\* line 256, 263-265: an event is read and its object is cast
Receive ==
    /\ Alive
    /\ ReceiveReady
    /\ streamOpen
    /\ \E ev \in NextEvents :
        /\ event' = ev
        /\ IF ev.typed
           THEN wpc' = "typed" /\ lastSent' = ev.rv
           ELSE wpc' = "untyped" /\ lastSent' = lastSent
    /\ UNCHANGED <<pods, rcs, streamOpen, tick, mainpc, resourceVersion,
                   watchFrom, call, lastRV, prev, crashed>>

\* an unexpected object that ends the watchControllers call
AfterSkipReturns == "forever"

\* line 267: continue
AfterSkip == "select"

\* line 265-268: the object is no replication controller; the loop goes round
Skip ==
    /\ Alive
    /\ wpc = "untyped"
    /\ wpc' = AfterSkip
    /\ event' = NoEvent
    /\ UNCHANGED <<pods, rcs, streamOpen, lastSent, tick, mainpc,
                   resourceVersion, watchFrom, call, lastRV, prev, crashed>>

\* line 270
CursorUpdate ==
    /\ Alive
    /\ wpc = "typed"
    /\ resourceVersion' = NextCursor(event)
    /\ wpc' = "dispatch"
    /\ lastRV' = event.rv
    /\ UNCHANGED <<pods, rcs, streamOpen, lastSent, tick, mainpc, watchFrom,
                   event, call, prev, crashed>>

\* a deletion that is taken as a target of no replica
EventSpecZeroOnDelete(ev) ==
    [id |-> ev.id, replicas |-> IF ev.kind = "DELETED" THEN 0 ELSE ev.replicas]

\* line 264, 274: *rc, the controller that the event carries
EventSpec(ev) == [id |-> ev.id, replicas |-> ev.replicas]

\* a handler that is called before the cursor is set
DispatchReadyEarly == wpc \in {"typed", "dispatch"}

\* line 270-274: the handler is called when the cursor has been set
DispatchReady == wpc = "dispatch"

\* line 274: rm.syncHandler(*rc) is called
Dispatch ==
    /\ Alive
    /\ DispatchReady
    /\ wpc' = "sync"
    /\ call' = [s \in Slots |->
                  IF s = 0
                  THEN Entered(EventSpec(event))
                  ELSE Idle]
    /\ event' = NoEvent
    /\ UNCHANGED <<pods, rcs, streamOpen, lastSent, tick, mainpc,
                   resourceVersion, watchFrom, lastRV, prev, crashed>>

\* a sweeper of its own, which takes the tick while a handler runs
SweepReadyDuringSync == wpc \in {"select", "sync"}

\* a sweeper of its own, which takes the tick wherever the watch loop is
SweepReadyAnywhere == wpc \in {"forever", "backoff", "select"}

\* line 252-254: the tick is a case of the select of watchControllers, which is
\* reached after the watch was opened
SweepReady == wpc = "select"

\* a loop that leaves the last controller of the list out
SweepTargetsButLast == DOMAIN rcs \ {Len(rcs)}

\* line 336-340: one goroutine for every index of controllerSpecs
SweepTargets == DOMAIN rcs

\* line 254-255, 325-347: the tick is taken, the controllers are listed and one
\* goroutine per controller is started
Synchronize(O) ==
    /\ Alive
    /\ SweepReady
    /\ tick
    /\ tick' = FALSE
    /\ \E ok \in O :
        IF ok
        THEN /\ wpc' = "sweep"
             /\ call' = [s \in Slots |->
                           IF s \in SweepTargets
                           THEN Entered([id |-> s, replicas |-> rcs[s]])
                           ELSE call[s]]
        ELSE UNCHANGED <<wpc, call>>
    /\ UNCHANGED <<pods, rcs, streamOpen, lastSent, mainpc, resourceVersion,
                   watchFrom, event, lastRV, prev, crashed>>

\* line 348-349
SweepJoin ==
    /\ Alive
    /\ wpc = "sweep"
    /\ SweepDrained
    /\ wpc' = "select"
    /\ call' = [s \in Slots |-> Idle]
    /\ UNCHANGED <<pods, rcs, streamOpen, lastSent, tick, mainpc,
                   resourceVersion, watchFrom, event, lastRV, prev, crashed>>

\* ------------------------------------------- syncReplicationController
\* line 290-303, 310-314
ListPods(s, O) ==
    /\ Alive
    /\ call[s].pc = "list"
    /\ \E ok \in O :
        IF ok
        THEN LET list == ListPodsOf(Selector(call[s].spec.id))
                 diff == Diff(list, call[s].spec)
             IN call' = [call EXCEPT ![s] =
                    [@ EXCEPT !.pc = "fan", !.podList = list,
                              !.toCreate = CreateCount(diff),
                              !.toDelete = DeleteIndices(diff)]]
        ELSE call' = [call EXCEPT ![s] =
                    [@ EXCEPT !.pc = "fan", !.listErr = TRUE]]
    /\ UNCHANGED <<pods, rcs, streamOpen, lastSent, tick, mainpc, wpc,
                   resourceVersion, watchFrom, event, lastRV, prev, crashed>>

\* line 304-307, 198-212: one create goroutine runs createReplica.  It writes the
\* label into the template's map, which every goroutine of this call shares
\* (line 202); a write that another goroutine's write can overlap is a data
\* race, on which the runtime may end the process.  Then it calls CreatePod
\* and logs a failure.
CreateReplica(s, O) ==
    /\ Alive
    /\ call[s].pc = "fan"
    /\ call[s].toCreate > 0
    /\ \E fatal \in (IF call[s].toCreate > 1 THEN BOOLEAN ELSE {FALSE}) :
        IF fatal
        THEN /\ crashed' = TRUE
             /\ pods' = pods
             /\ call' = [call EXCEPT ![s] =
                    [@ EXCEPT !.toCreate = @ - 1, !.nCreate = @ + 1]]
        ELSE /\ crashed' = crashed
             /\ LET l == TemplateLabel(call[s].spec.id) IN
               \E ok \in CreateOutcomes(l, O) :
                 /\ pods' = IF ok
                            THEN [pods EXCEPT ![l][NewPodID(l)] = "Running"]
                            ELSE pods
                 /\ call' = [call EXCEPT ![s] =
                       [@ EXCEPT !.toCreate = Remaining(@, ok),
                                 !.nCreate = @ + 1,
                                 !.nFail = IF ok THEN @ ELSE @ + 1]]
    /\ UNCHANGED <<rcs, streamOpen, lastSent, tick, mainpc, wpc,
                   resourceVersion, watchFrom, event, lastRV, prev>>

\* line 315-318, 214-216
DeletePod(s, ix, O) ==
    /\ Alive
    /\ call[s].pc = "fan"
    /\ ix \in call[s].toDelete
    /\ LET id == DeleteTarget(s, ix) IN
       \E ok \in DeleteOutcomes(id, O) :
        /\ pods' = IF ok THEN [pods EXCEPT ![id[1]][id[2]] = "Absent"] ELSE pods
        /\ call' = [call EXCEPT ![s] =
              [@ EXCEPT !.toDelete = @ \ {ix}, !.nDelete = @ + 1,
                        !.deleted = @ \cup {id},
                        !.nFail = IF ok THEN @ ELSE @ + 1]]
    /\ UNCHANGED <<rcs, streamOpen, lastSent, tick, mainpc, wpc,
                   resourceVersion, watchFrom, event, lastRV, prev, crashed>>

\* a call that reports a failed create or delete to its caller
ReturnValueStrict(s) ==
    IF call[s].listErr \/ call[s].nFail > 0 THEN "err" ELSE "nil"

\* line 294, 322
ReturnValue(s) == IF call[s].listErr THEN "err" ELSE "nil"

\* line 293-295, 309, 320-322: the call returns
Return(s) ==
    /\ Alive
    /\ call[s].pc = "fan"
    /\ Drained(s)
    /\ call' = [call EXCEPT ![s] = [@ EXCEPT !.pc = "done", !.ret = ReturnValue(s)]]
    /\ prev' = [prev EXCEPT ![call[s].spec.id] =
                  IF call[s].listErr \/ call[s].nFail > 0
                  THEN NoPred ELSE call[s].spec.replicas]
    /\ UNCHANGED <<pods, rcs, streamOpen, lastSent, tick, mainpc, wpc,
                   resourceVersion, watchFrom, event, lastRV, crashed>>

\* line 274-276: the handler has returned, its result is dropped and the loop
\* goes round
Continue ==
    /\ Alive
    /\ wpc = "sync"
    /\ call[0].pc = "done"
    /\ wpc' = "select"
    /\ call' = [s \in Slots |-> Idle]
    /\ UNCHANGED <<pods, rcs, streamOpen, lastSent, tick, mainpc,
                   resourceVersion, watchFrom, event, lastRV, prev, crashed>>

\* ------------------------------------------------------------------ Next
Step(O) ==
    \/ Run
    \/ Tick
    \/ WatchOpen
    \/ Backoff
    \/ StreamClose
    \/ WatchClosed
    \/ Receive
    \/ Skip
    \/ CursorUpdate
    \/ Dispatch
    \/ Synchronize(O)
    \/ SweepJoin
    \/ \E s \in Slots : ListPods(s, O)
    \/ \E s \in Slots : CreateReplica(s, O)
    \/ \E s \in Slots : \E ix \in PodIDs : DeletePod(s, ix, O)
    \/ \E s \in Slots : Return(s)
    \/ Continue

Next == Step(BOOLEAN)

Spec == Init /\ [][Next]_vars

\* ------------------------------------------------ the fair specification
\* Every list, create and delete call succeeds.
LiveNext == Step({TRUE})

\* the steps of the goroutine of Run that wait for nothing but the scheduler
WatchLoop ==
    \/ Backoff \/ WatchClosed \/ Skip \/ CursorUpdate \/ Dispatch
    \/ SweepJoin \/ Continue

\* the steps of call s and of its goroutines
Task(s) ==
    \/ ListPods(s, {TRUE})
    \/ CreateReplica(s, {TRUE})
    \/ \E ix \in PodIDs : DeletePod(s, ix, {TRUE})
    \/ Return(s)

\* an open of the watch that succeeds
WatchOpenOK == WatchOpen /\ wpc' = "select"

\* Run is called.  The scheduler runs every goroutine that can take a step;
\* the ticker keeps ticking; the select, which picks at random among its ready
\* cases, takes a tick that is ready again and again; and the server, asked
\* again and again, opens the watch at some time.
Fairness ==
    /\ WF_vars(Run)
    /\ WF_vars(Tick)
    /\ WF_vars(WatchLoop)
    /\ SF_vars(WatchOpenOK)
    /\ SF_vars(Synchronize({TRUE}))
    /\ \A s \in Slots : WF_vars(Task(s))

LiveSpec == Init /\ [][LiveNext]_vars /\ Fairness

\* The same scheduling with a server that may refuse the watch every time it
\* is asked, and calls that may fail.
FairnessWatchDown ==
    /\ WF_vars(Run)
    /\ WF_vars(Tick)
    /\ WF_vars(WatchLoop)
    /\ WF_vars(WatchOpen)
    /\ SF_vars(Synchronize({TRUE}))
    /\ \A s \in Slots : WF_vars(Task(s))

WatchDownSpec == Init /\ [][Next]_vars /\ FairnessWatchDown

\* ------------------------------------------------- one call, as observed
\* the call has listed the pods (line 292 returned no error)
Listed(s) == call[s].pc \in {"fan", "done"} /\ ~call[s].listErr

\* the call has returned
Returned(s) == call[s].pc = "done"

\* the places of the listing that hold a pod that is not terminated
ActivePlaces(s) ==
    {i \in DOMAIN call[s].podList : call[s].podList[i].cond # "Terminated"}

\* a: the number of listed pods that are not terminated
ActiveListed(s) == Cardinality(ActivePlaces(s))

\* t: the replica count of the controller the call was given
Target(s) == call[s].spec.replicas

\* the pods at the first n active places of the listing
FirstActive(s, n) ==
    {call[s].podList[i].id : i \in
        {j \in ActivePlaces(s) : Cardinality({k \in ActivePlaces(s) : k <= j}) <= n}}

\* C1: a call that listed a < t active pods asks for no delete, and for t - a
\* creates: never more, and exactly that many when it returns.
C1_ScaleUp ==
    \A s \in Slots :
        (Listed(s) /\ ActiveListed(s) < Target(s)) =>
            /\ call[s].nDelete = 0
            /\ call[s].toDelete = {}
            /\ call[s].nCreate + call[s].toCreate = Target(s) - ActiveListed(s)
            /\ (Returned(s) => call[s].nCreate = Target(s) - ActiveListed(s))

\* a call listed fewer active pods than its target by two and has returned
C1_Witness ==
    \E s \in Slots :
        /\ Returned(s) /\ Listed(s)
        /\ ActiveListed(s) + 2 <= Target(s)
        /\ call[s].nCreate >= 2

\* C2: a call that listed a > t active pods asks for no create; its deletes name
\* pairwise distinct pods among the first a - t active pods of the listing,
\* and when it returns it has asked for exactly those a - t.
C2_ScaleDown ==
    \A s \in Slots :
        (Listed(s) /\ ActiveListed(s) > Target(s)) =>
            LET n == ActiveListed(s) - Target(s) IN
            /\ call[s].nCreate = 0
            /\ call[s].toCreate = 0
            /\ Cardinality(call[s].deleted) = call[s].nDelete
            /\ call[s].nDelete + Cardinality(call[s].toDelete) = n
            /\ call[s].deleted \subseteq FirstActive(s, n)
            /\ (Returned(s) =>
                  call[s].nDelete = n /\ call[s].deleted = FirstActive(s, n))

\* a call that had to spare an active pod, listed behind the ones it deleted,
\* has returned
C2_Witness ==
    \E s \in Slots :
        /\ Returned(s) /\ Listed(s)
        /\ ActiveListed(s) > Target(s)
        /\ Target(s) >= 1
        /\ call[s].nDelete >= 1

C5_ResumeFromCursor ==
    [][/\ (wpc # "forever" /\ wpc' = "forever") =>
              resourceVersion' = resourceVersion
       /\ (wpc = "forever" /\ wpc' # "forever") =>
              /\ watchFrom' = resourceVersion
              /\ (lastRV > 0 => watchFrom' = lastRV + 1)]_vars

\* the watch has been opened again after an event was processed
C5_Witness ==
    wpc = "select" /\ streamOpen /\ lastRV > 0 /\ watchFrom = lastRV + 1

\* C6: the creates and deletes of a call are as many as the active pods of its
\* listing differ from the target, and every delete names a pod that the
\* listing holds as not terminated.
C6_TerminatedIgnored ==
    \A s \in Slots :
        Listed(s) =>
            LET a == ActiveListed(s)
                t == Target(s)
            IN /\ call[s].nCreate + call[s].toCreate = (IF a < t THEN t - a ELSE 0)
               /\ call[s].nDelete + Cardinality(call[s].toDelete)
                      = (IF a > t THEN a - t ELSE 0)
               /\ \A id \in call[s].deleted :
                      \E i \in ActivePlaces(s) : call[s].podList[i].id = id

\* a call whose listing starts with a terminated pod has deleted another pod
C6_Witness ==
    \E s \in Slots :
        /\ Returned(s) /\ Listed(s)
        /\ Len(call[s].podList) >= 2
        /\ call[s].podList[1].cond = "Terminated"
        /\ call[s].nDelete >= 1

\* C7: a call for a controller whose last call had the same replica count, and
\* whose list, creates and deletes all succeeded, asks for nothing.
C7_Idempotent ==
    \A s \in Slots :
        (call[s].pc = "fan" /\ ~call[s].listErr
            /\ prev[call[s].spec.id] = Target(s)) =>
            /\ call[s].nCreate = 0
            /\ call[s].nDelete = 0
            /\ call[s].toCreate = 0
            /\ call[s].toDelete = {}

\* a second call for controller 2, whose pods an earlier call created
C7_Witness ==
    \E s \in Slots :
        /\ call[s].pc = "fan" /\ ~call[s].listErr
        /\ call[s].spec.id = 2
        /\ Target(s) = MaxReplicas
        /\ prev[2] = MaxReplicas

\* C8: a call that listed as many active pods as its target asks for nothing,
\* and no step of it changes the pods.
C8_NoOpWhenEqual ==
    [][\A s \in Slots :
          (Listed(s)' /\ ActiveListed(s)' = Target(s)') =>
              /\ call'[s].nCreate = 0
              /\ call'[s].nDelete = 0
              /\ call'[s].toCreate = 0
              /\ call'[s].toDelete = {}
              /\ (call'[s] # call[s] => pods' = pods)]_vars

\* a call that found its target met, with pods to count, has returned
C8_Witness ==
    \E s \in Slots :
        /\ Returned(s) /\ Listed(s)
        /\ Target(s) >= 1
        /\ ActiveListed(s) = Target(s)
        /\ Len(call[s].podList) > ActiveListed(s)

\* C9: a call whose list failed asks for nothing, and a call returns an error
\* exactly when its list failed.
C9_ErrorOnlyFromList ==
    \A s \in Slots :
        /\ call[s].listErr =>
              /\ call[s].nCreate = 0
              /\ call[s].nDelete = 0
              /\ call[s].toCreate = 0
              /\ call[s].toDelete = {}
        /\ Returned(s) => (call[s].ret = "err" <=> call[s].listErr)

\* of two calls of one sweep, one returned the error of its list and the other
\* returned nil after a create or delete of it had failed
C9_Witness ==
    \E s1, s2 \in Slots :
        /\ Returned(s1) /\ call[s1].listErr /\ call[s1].ret = "err"
        /\ Returned(s2) /\ call[s2].nFail > 0 /\ call[s2].ret = "nil"

\* the pods of label l that are not terminated
ActiveNow(l) == Cardinality({k \in PodIDs : pods[l][k] = "Running"})

\* C10: a call that listed the pods returns nil after every create or delete
\* of its batch was called once, whichever of them failed, and each that
\* succeeded has added or removed one pod.
C10_PartialFailure ==
    \A s \in Slots :
        (Returned(s) /\ Listed(s)) =>
            LET a == ActiveListed(s)
                t == Target(s)
            IN /\ call[s].ret = "nil"
               /\ call[s].nCreate = (IF a < t THEN t - a ELSE 0)
               /\ call[s].nDelete = (IF a > t THEN a - t ELSE 0)
               /\ Cardinality(call[s].deleted) = call[s].nDelete
               /\ call[s].nFail <= call[s].nCreate + call[s].nDelete
               /\ ActiveNow(Selector(call[s].spec.id))
                      = a + (IF a < t THEN call[s].nCreate - call[s].nFail ELSE 0)
                          - (IF a > t THEN call[s].nDelete - call[s].nFail ELSE 0)

\* a batch of two creates of which one failed and one succeeded has returned
C10_Witness ==
    \E s \in Slots :
        /\ Returned(s) /\ Listed(s)
        /\ call[s].nCreate = 2
        /\ call[s].nFail = 1

\* controller i, when stored, has as many active pods as replicas
Converged(i) == i \in DOMAIN rcs => ActiveNow(Selector(i)) = rcs[i]

\* C3: with every list, create and delete succeeding and nothing else changing
\* the pods, the active pods of every stored controller come to be as many as
\* its replicas, and stay so.
C3_Converges == \A i \in SpecIDs : <>[]Converged(i)

\* The same, unless the process has been ended by the data race of line 202.
C3_ConvergesUnlessCrashed == \A i \in SpecIDs : <>[](crashed \/ Converged(i))

\* the watch loop is inside a watchControllers call whose watch was opened
Watching == wpc \in {"select", "typed", "untyped", "dispatch", "sync", "sweep"}

C12_SweepCallsEachOnce ==
    [][/\ (wpc = "select" /\ wpc' = "sweep") =>
              /\ call'[0] = Idle
              /\ \A i \in SpecIDs :
                    call'[i] = IF i \in DOMAIN rcs
                               THEN Entered([id |-> i, replicas |-> rcs[i]])
                               ELSE Idle
       /\ (wpc = "sweep" /\ wpc' = "sweep") =>
              \A i \in SpecIDs :
                    /\ call'[i].spec = call[i].spec
                    /\ call[i].pc \in {"idle", "done"} => call'[i] = call[i]
       /\ (wpc = "sweep" /\ wpc' # "sweep") =>
              /\ wpc' = "select"
              /\ \A i \in DOMAIN rcs : Returned(i) /\ call[i].spec.id = i
       /\ (tick /\ ~tick' /\ wpc' # "sweep") =>
              /\ wpc' = wpc
              /\ call' = call
              /\ pods' = pods]_vars

\* in a sweep over two controllers the call for the first has returned the
\* error of its list, and the call for the second has created pods and returned
C12_Witness ==
    /\ wpc = "sweep"
    /\ Returned(1) /\ call[1].ret = "err"
    /\ Returned(2) /\ call[2].ret = "nil" /\ call[2].nCreate - call[2].nFail > 0

\* C13 as stated: Run does not return to its caller.
C13_RunDoesNotReturn == mainpc # "returned"

\* C13, amended: Run sets the ticker and the cursor, starts the watch loop
\* (which holds both paths) as a goroutine and returns to its caller at once;
\* nothing runs before Run, and the loop goes on after Run has returned.
C13_RunStartsAndReturns ==
    [][/\ (mainpc = "new" /\ mainpc' # "new") =>
              /\ mainpc' = "returned"
              /\ wpc' = "forever"
              /\ resourceVersion' = 0
       /\ mainpc' = "new" => (wpc' = "none" /\ ~tick')
       /\ mainpc = "returned" => (mainpc' = "returned" /\ wpc' # "none")
       /\ (tick' # tick \/ wpc' # wpc) => mainpc' = "returned"]_vars

\* Run has returned, the loop has handled an event and is in a sweep
C13_Witness == mainpc = "returned" /\ wpc = "sweep" /\ lastRV > 0

\* C14: after a typed event is read the next step of the loop sets the cursor to
\* the event's version plus one; the handler is entered, with the event's
\* controller, only when the cursor has that value; and the cursor keeps it
\* while the handler runs and when it has returned, whatever it returned.
C14_CursorBeforeHandler ==
    [][/\ wpc = "typed" =>
              (wpc' = "dispatch" /\ resourceVersion' = event.rv + 1)
       /\ (wpc # "sync" /\ wpc' = "sync") =>
              /\ resourceVersion = event.rv + 1
              /\ resourceVersion' = resourceVersion
              /\ call'[0] = Entered([id |-> event.id, replicas |-> event.replicas])
       /\ wpc = "sync" =>
              (resourceVersion' = resourceVersion /\ resourceVersion = lastRV + 1)]_vars

\* the handler of an event has returned an error, and the cursor is past the
\* event
C14_Witness ==
    /\ wpc = "sync"
    /\ Returned(0) /\ call[0].ret = "err"
    /\ lastRV > 0 /\ resourceVersion = lastRV + 1

\* C15 as stated: when the cursor is the version of the event in hand plus one,
\* the handler has been invoked for that event.
C15_CursorAfterDispatch ==
    (event.typed /\ resourceVersion = event.rv + 1) => call[0].pc # "idle"

\* C15, amended: the cursor is set for an event before the event is dispatched,
\* never after.  Between the two the cursor is the event's version plus one and
\* no handler has been invoked; before the cursor is set it is not above the
\* event's version; and when the handler has been invoked the cursor is the
\* version of that event plus one.
C15_CursorBeforeDispatch ==
    /\ wpc = "typed" => (resourceVersion <= event.rv /\ call[0] = Idle)
    /\ wpc = "dispatch" => (resourceVersion = event.rv + 1 /\ call[0] = Idle)
    /\ wpc = "sync" => (resourceVersion = lastRV + 1 /\ lastRV > 0 /\ call[0] # Idle)

\* the cursor is past an event that was read on a stream opened from a saved
\* cursor, and the handler of the event has not been invoked
C15_Witness ==
    /\ wpc = "dispatch"
    /\ call[0] = Idle
    /\ event.rv >= watchFrom /\ watchFrom > 0
    /\ resourceVersion = event.rv + 1

\* call s is in progress: entered and not returned
InProgress(s) == call[s].pc \in {"list", "fan"}

\* a call made for an event and a call made by a sweep, for one controller,
\* are both in progress
Overlap ==
    \E i \in SpecIDs :
        InProgress(0) /\ call[0].spec.id = i /\ InProgress(i)

TemplateMap(s) == s

\* the create goroutines that have been started and have yet to write map m
Writers(m) ==
    {w \in Slots \X (1..MaxReplicas) :
        /\ TemplateMap(w[1]) = m
        /\ call[w[1]].pc = "fan"
        /\ w[2] <= call[w[1]].toCreate}

\* C17: no two create tasks that run together write one object in memory.
C17_NoSharedMutation ==
    \A m \in Slots : Cardinality(Writers(m)) <= 1

\* C18: a call that has returned has no create or delete task left, it asked
\* for as many as it started, and nothing of it changes afterwards.
C18_Barrier ==
    [][\A s \in Slots :
          /\ call'[s].pc = "done" =>
                /\ call'[s].toCreate = 0
                /\ call'[s].toDelete = {}
                /\ Listed(s)' =>
                      /\ call'[s].nCreate = CreateCount(Diff(call'[s].podList, call'[s].spec))
                      /\ call'[s].nDelete =
                            Cardinality(DeleteIndices(Diff(call'[s].podList, call'[s].spec)))
          /\ call[s].pc = "done" => call'[s] \in {call[s], Idle}]_vars

\* in a sweep the call for controller 1 has returned after its delete, while
\* create tasks of the call for controller 2 are still to run
C18_Witness ==
    /\ wpc = "sweep"
    /\ Returned(1) /\ call[1].nDelete = 1
    /\ InProgress(2) /\ call[2].toCreate > 0

\* C19: an event is read only when no event is in hand and no call is in
\* progress; its version is above that of the last event handled; the handler
\* that is entered is the one of the event read last; and the loop leaves the
\* handler only when it has returned, for the select.
C19_OneAtATimeInOrder ==
    [][/\ (wpc = "select" /\ wpc' \in {"typed", "untyped"}) =>
              /\ event = NoEvent
              /\ \A s \in Slots : call[s] = Idle
              /\ event'.typed => event'.rv > lastRV
       /\ (wpc # "sync" /\ wpc' = "sync") =>
              /\ event.rv = lastSent /\ lastRV = event.rv
              /\ call'[0].spec = EventSpec(event)
       /\ (wpc = "sync" /\ wpc' # "sync") =>
              (Returned(0) /\ wpc' = "select" /\ event' = NoEvent)]_vars

\* a second event is read on the first stream, after the handler of the first
\* event has created pods and returned
C19_Witness ==
    /\ wpc = "typed"
    /\ watchFrom = 0
    /\ lastRV > 0 /\ event.rv > lastRV
    /\ \E i \in SpecIDs : prev[i] > 0 /\ ActiveNow(Selector(i)) = prev[i]

\* the call in frame 0 was made for a deletion event: the events about a
\* controller that is not stored are the deletion events
ForDeletion == call[0].spec.id \notin DOMAIN rcs

\* C20: a typed event of any kind is followed by one call of the handler, with
\* the controller that the event carries and its replica count as carried; the
\* call is not entered again; and a call for a deletion event that lists no
\* more active pods than the event's replica count asks for no delete.
C20_EveryKindReconciled ==
    [][/\ wpc = "dispatch" =>
              /\ event.typed /\ event.kind \in {"ADDED", "MODIFIED", "DELETED"}
              /\ event.kind = "DELETED" <=> event.id \notin DOMAIN rcs
              /\ wpc' = "sync"
              /\ call' = [s \in Slots |-> IF s = 0
                            THEN Entered([id |-> event.id, replicas |-> event.replicas])
                            ELSE Idle]
       /\ wpc = "sync" =>
              /\ call'[0].spec = call[0].spec \/ (Returned(0) /\ call'[0] = Idle)
              /\ call[0].pc # "list" => call'[0].pc # "list"
              /\ \A i \in SpecIDs : call[i] = Idle
       /\ (wpc' = "sync" /\ ForDeletion' /\ Listed(0)'
              /\ ActiveListed(0)' <= Target(0)') =>
              /\ call'[0].nDelete = 0
              /\ call'[0].toDelete = {}
              /\ \A k \in PodIDs :
                    pods[Selector(call'[0].spec.id)][k] = "Running" =>
                        pods'[Selector(call'[0].spec.id)][k] = "Running"]_vars

\* the call for a deletion event that carries two replicas has found two
\* active pods and returned; the pods are still running
C20_Witness ==
    /\ wpc = "sync"
    /\ ForDeletion
    /\ Returned(0) /\ Listed(0)
    /\ Target(0) = MaxReplicas
    /\ ActiveListed(0) = Target(0)
    /\ call[0].nDelete = 0
    /\ ActiveNow(Selector(call[0].spec.id)) = Target(0)

\* C21: an event whose object is no replication controller changes nothing
\* but the event in hand: no call is entered, the cursor, the stream and the
\* pods are as they were, and the next step of the loop is back at the select
\* of the same stream, where the next event can be read.
C21_UntypedSkipped ==
    [][/\ (wpc = "select" /\ wpc' = "untyped") =>
              /\ ~event'.typed
              /\ UNCHANGED <<resourceVersion, watchFrom, lastRV, lastSent,
                             streamOpen, call, pods, prev>>
       /\ wpc = "untyped" =>
              /\ wpc' = "select"
              /\ streamOpen' = streamOpen /\ streamOpen
              /\ (ReceiveReady /\ Alive)'
              /\ event' = NoEvent
              /\ \A s \in Slots : call'[s] = Idle
              /\ UNCHANGED <<resourceVersion, watchFrom, lastRV, lastSent,
                             call, pods, prev>>]_vars

\* an object that is no replication controller is in hand on a stream that
\* passed a replication controller before
C21_Witness ==
    /\ wpc = "untyped"
    /\ streamOpen
    /\ lastRV > 0 /\ lastSent = lastRV
    /\ resourceVersion = lastRV + 1

\* C22: a failed open leads, through the backoff, back to the next open, and
\* reads no event, enters no call and leaves the cursor and the pods as they
\* were; wherever the loop is between two opens the next step is there to take.
C22_OpenFailureRetried ==
    [][/\ (wpc = "forever" /\ wpc' # "forever") =>
              /\ wpc' = (IF streamOpen' THEN "select" ELSE "backoff")
              /\ UNCHANGED <<resourceVersion, event, call, pods, lastRV, prev>>
       /\ (wpc = "forever" /\ wpc' = "backoff") =>
              UNCHANGED <<streamOpen, lastSent>>
       /\ wpc = "backoff" =>
              /\ wpc' \in {"backoff", "forever"}
              /\ event = NoEvent
              /\ UNCHANGED <<resourceVersion, event, call, pods, lastRV, prev,
                             streamOpen, lastSent>>
       /\ wpc' \in {"forever", "backoff"} =>
              /\ Alive'
              /\ \A s \in Slots : call'[s] = Idle
              /\ (ENABLED (WatchOpen \/ Backoff))']_vars

\* after an event was handled and the stream was lost, an open has failed,
\* and the cursor is as the event left it
C22_Witness ==
    /\ wpc = "backoff"
    /\ ~streamOpen
    /\ lastRV > 0 /\ resourceVersion = lastRV + 1
    /\ watchFrom = resourceVersion

\* C23: a sweep starts only at the select, when no call of an earlier sweep
\* or of an event is left; while it runs no tick is taken; and it ends only
\* when every call of it has returned with no task left.
C23_SweepsNeverOverlap ==
    [][/\ (tick /\ ~tick') =>
              /\ wpc = "select"
              /\ \A s \in Slots : call[s] = Idle
       /\ wpc = "sweep" => ((tick => tick') /\ wpc' \in {"sweep", "select"})
       /\ (wpc = "sweep" /\ wpc' # "sweep") =>
              /\ \A i \in SpecIDs :
                    call[i] # Idle => (Returned(i) /\ Drained(i))
              /\ \A s \in Slots : call'[s] = Idle]_vars

\* no event was handled, a sweep has synchronised controller 1, and the next
\* sweep is in its call for controller 1
C23_Witness ==
    /\ wpc = "sweep"
    /\ lastRV = 0
    /\ prev[1] # NoPred
    /\ InProgress(1)

====
